---- MODULE Spec2Model ----
(***************************************************************************)
(* Session / role state machine and polling loops of the ride-hailing      *)
(* client, frontend/src/App.js (first App component, lines 46-742).        *)
(*                                                                         *)
(* One action is one task of the JavaScript event loop: an event handler,  *)
(* a timer callback or the continuation of an awaited request.  The state  *)
(* updates of a task are committed together with the effects whose         *)
(* dependencies they changed (cleanup of the previous run, then the body)  *)
(* before the next task runs.                                              *)
(***************************************************************************)
EXTENDS Integers, Sequences, FiniteSets

VARIABLES
    phase,            \* "init" before the component is mounted, then "mounted"
    geoPending,       \* getCurrentPosition was called, no callback fired yet
    user,             \* useState(null), line 47
    currentLocation,  \* useState(null), line 48
    nearbyTaxis,      \* useState([]), line 49
    isLoading,        \* useState(false), line 53
    alert,            \* useState({show:false,...}), line 54
    loginForm,        \* line 58
    passengerForm,    \* line 59
    driverForm,       \* line 64
    token,            \* localStorage item 'token'
    Authorization,    \* axios.defaults.headers.common['Authorization']
    pollerTimers,     \* live intervals created at line 120
    reporterTimers,   \* live intervals created at line 277
    alertTimers,      \* pending timeouts created at line 127
    profileReq,       \* GET /api/me in flight (line 132)
    nearbyReqs,       \* number of GET /api/taxis/nearby in flight (line 153)
    reportReqs,       \* number of POST /api/driver/location in flight (line 225)
    formReq,          \* the login / registration request in flight
    rideRequest,      \* useState({pickup_address: '', ...}), line 74
    rideReq,          \* the bodies of POST /api/rides/request in flight (line 243)
    rides,            \* useState([]), line 52
    last              \* the task that ran last: its name, the profile and the
                      \* taxi list it found, the response data it was given,
                      \* the form it was about

vars == <<phase, geoPending, user, currentLocation, nearbyTaxis, isLoading,
          alert, loginForm, passengerForm, driverForm, token, Authorization,
          pollerTimers, reporterTimers, alertTimers, profileReq, nearbyReqs,
          reportReqs, formReq, rideRequest, rideReq, rides, last>>

formVars == <<loginForm, passengerForm, driverForm>>
credVars == <<token, Authorization>>
loopVars == <<pollerTimers, reporterTimers, nearbyReqs, reportReqs>>
rideVars == <<rideRequest, rideReq, rides>>

----------------------------------------------------------------------------
(* Bounds *)

MaxInFlight == 2      \* requests of one loop awaiting a response
MaxAlertTimers == 2   \* dismissal timeouts pending at once
MaxListLen == 1       \* length of a nearby-taxi response

----------------------------------------------------------------------------
(* Values *)

\* null of `user`
NullUser == [user_type |-> "null", is_activated |-> FALSE]

\* response.data of /api/me, response.data.user of /api/login and /api/register
Profiles == [user_type : {"passenger", "driver"}, is_activated : BOOLEAN]

\* null of `currentLocation`
NullLocation == [lat |-> 0, lng |-> 0]

\* { lat: 24.7136, lng: 46.6753 }, in units of 1e-4 degree
DefaultLocation == [lat |-> 247136, lng |-> 466753]

\* position.coords of the device
DevicePositions == {[lat |-> 215433, lng |-> 391728]}

\* localStorage.getItem('token') === null
NoToken == "null"

\* the credential persisted by an earlier visit
StoredTokens == {"tokA"}

\* response.data.access_token
IssuedTokens == {"tokB"}

\* header absent from axios.defaults.headers.common
NoHeader == <<>>

\* `Bearer ${token}`
Bearer(t) == <<"Bearer", t>>

\* response.data of /api/taxis/nearby: the list of the ids of the n nearest taxis
TaxiLists == {[i \in 1..n |-> i] : n \in 0..MaxListLen}

\* error.response?.status; 0 stands for an error without a response
ErrorStatuses == {0, 401, 403, 500}

HiddenAlert == [show |-> FALSE, type |-> "", message |-> ""]

EmptyLoginForm == [phone |-> "", password |-> ""]
EmptyPassengerForm == [name |-> "", age |-> "", password |-> ""]
EmptyDriverForm ==
    [phone |-> "", name |-> "", car_registration_number |-> "",
     operating_number |-> "", taxi_office_name |-> "",
     taxi_office_phone |-> "", password |-> "", activation_code |-> ""]

\* what the user types before submitting
TypedLoginForm == [phone |-> "0501234567", password |-> "secret"]
TypedPassengerForm == [name |-> "Sara", age |-> "30", password |-> "secret"]
TypedDriverForm ==
    [phone |-> "0501234567", name |-> "Omar", car_registration_number |-> "ABC123",
     operating_number |-> "77", taxi_office_name |-> "Office",
     taxi_office_phone |-> "0112345678", password |-> "secret",
     activation_code |-> "0512345"]

\* no login / registration request in flight
NoReq == [kind |-> "none"]
FormKinds == {"login", "passenger", "driver"}

\* error.response?.data?.detail: absent, empty or a text
Undefined == "undefined"
Details == {Undefined, "", "Phone number already registered"}

\* response.data.message of a registration
ServerMessages == {"Registered successfully"}

MsgLoginOk == "login succeeded"          \* line 172
MsgLoginError == "login error"           \* line 174
MsgRegisterError == "registration error" \* lines 192, 214
MsgActivationExpired == "activation expired, renew the subscription" \* line 232

MsgRideOk == "ride request sent"            \* line 252
MsgRideError == "ride request error, retry"  \* line 255
CurrentLocationSentinel == "current location" \* line 246

\* a JavaScript number or string held in rideRequest.passenger_count
Num(n) == [type |-> "number", num |-> n, str |-> ""]
Str(s) == [type |-> "string", num |-> 0, str |-> s]

\* the value of rideRequest at line 74, set again at line 253
InitialRideRequest ==
    [pickup_address |-> "", destination_address |-> "",
     passenger_count |-> Num(1), has_luggage |-> FALSE]

\* what the inputs of the ride form can hold: two text inputs (lines 605-622),
\* the options of the two selects (lines 631-634 and 644-645)
PickupAddresses == {"", "Airport"}
DestinationAddresses == {"", "Mall"}
PassengerCountOptions == {"1", "2", "3", "4"}
LuggageOptions == {"false", "true"}
RideFields == {"pickup_address", "destination_address", "passenger_count", "has_luggage"}

\* parseInt on the values passenger_count can hold, line 248
parseInt(x) ==
    IF x.type = "number" THEN x.num
    ELSE CASE x.str = "1" -> 1
           [] x.str = "2" -> 2
           [] x.str = "3" -> 3
           [] x.str = "4" -> 4

\* the functions a render creates close over that render's state
Closure(u, l) == [user |-> u, currentLocation |-> l]

NoLast == [op |-> "none", user |-> NullUser, taxis |-> <<>>, data |-> <<>>,
           kind |-> "none", profile |-> NullUser]
Did(op) == [NoLast EXCEPT !.op = op]

----------------------------------------------------------------------------
(* Effects *)

\* clearInterval(interval)
ClearInterval(timers, c) == timers \ {c}

\* a nearby-taxi effect that runs for drivers only
PollerActiveDriverOnly(u, l) ==
    u # NullUser /\ u.user_type = "driver" /\ l # NullLocation

\* condition of the nearby-taxi effect, line 118
PollerActive(u, l) == u # NullUser /\ l # NullLocation

\* condition of the driver-location effect, line 275
ReporterActive(u, l) ==
    /\ u # NullUser
    /\ u.user_type = "driver"
    /\ l # NullLocation
    /\ u.is_activated

\* fetchNearbyTaxis gets past its early return, line 150
FetchNearbyTaxisSends(c) == c.currentLocation # NullLocation

\* handleLocationUpdate gets past its early return, line 222
HandleLocationUpdateSends(c) ==
    ~ \/ c.user = NullUser
      \/ c.user.user_type # "driver"
      \/ c.currentLocation = NullLocation
      \/ ~c.user.is_activated

\* a nearby-taxi effect that returns no cleanup
PollerCleanupLeak(timers, u0, l0) == timers

\* the cleanup returned by the previous run of the nearby-taxi effect, line 121
PollerCleanup(timers, u0, l0) ==
    IF PollerActive(u0, l0) THEN ClearInterval(timers, Closure(u0, l0)) ELSE timers

\* the cleanup returned by the previous run of the driver-location effect, line 278
ReporterCleanup(timers, u0, l0) ==
    IF ReporterActive(u0, l0) THEN ClearInterval(timers, Closure(u0, l0)) ELSE timers

\* setInterval(fetchNearbyTaxis, 30000), line 120
PollerSetup(timers, u1, l1) ==
    IF PollerActive(u1, l1) THEN timers \cup {Closure(u1, l1)} ELSE timers

\* setInterval(handleLocationUpdate, 60000), line 277
ReporterSetup(timers, u1, l1) ==
    IF ReporterActive(u1, l1) THEN timers \cup {Closure(u1, l1)} ELSE timers

\* a nearby-taxi effect that only sets the interval
PollerImmediateNone(u1, l1) == 0

\* requests sent by the body of the nearby-taxi effect, line 119
PollerImmediate(u1, l1) ==
    IF PollerActive(u1, l1) /\ FetchNearbyTaxisSends(Closure(u1, l1)) THEN 1 ELSE 0

\* a driver-location effect that posts whenever a profile and a position are held
ReporterImmediateUnguarded(u1, l1) ==
    IF u1 # NullUser /\ l1 # NullLocation THEN 1 ELSE 0

\* requests sent by the body of the driver-location effect, line 276
ReporterImmediate(u1, l1) ==
    IF ReporterActive(u1, l1) /\ HandleLocationUpdateSends(Closure(u1, l1)) THEN 1 ELSE 0

\* effects that run their body without the cleanup of the previous run
CommitSkipsCleanup(u1, l1, changed) ==
    /\ user' = u1
    /\ currentLocation' = l1
    /\ IF changed
       THEN /\ pollerTimers' = PollerSetup(pollerTimers, u1, l1)
            /\ reporterTimers' = ReporterSetup(reporterTimers, u1, l1)
            /\ nearbyReqs' = nearbyReqs + PollerImmediate(u1, l1)
            /\ reportReqs' = reportReqs + ReporterImmediate(u1, l1)
            /\ nearbyReqs' <= MaxInFlight
            /\ reportReqs' <= MaxInFlight
       ELSE UNCHANGED loopVars

\* setUser(u1) / setCurrentLocation(l1) and the effects depending on
\* [user, currentLocation]; `changed` is whether a dependency got a new identity
Commit(u1, l1, changed) ==
    /\ user' = u1
    /\ currentLocation' = l1
    /\ IF changed
       THEN /\ pollerTimers' =
                 PollerSetup(PollerCleanup(pollerTimers, user, currentLocation), u1, l1)
            /\ reporterTimers' =
                 ReporterSetup(ReporterCleanup(reporterTimers, user, currentLocation), u1, l1)
            /\ nearbyReqs' = nearbyReqs + PollerImmediate(u1, l1)
            /\ reportReqs' = reportReqs + ReporterImmediate(u1, l1)
            /\ nearbyReqs' <= MaxInFlight
            /\ reportReqs' <= MaxInFlight
       ELSE UNCHANGED loopVars

\* showAlert, lines 125-128
showAlert(type, message) ==
    /\ alertTimers < MaxAlertTimers
    /\ alert' = [show |-> TRUE, type |-> type, message |-> message]
    /\ alertTimers' = alertTimers + 1

----------------------------------------------------------------------------
(* Start-up *)

Init ==
    /\ phase = "init"
    /\ geoPending = FALSE
    /\ user = NullUser
    /\ currentLocation = NullLocation
    /\ nearbyTaxis = <<>>
    /\ isLoading = FALSE
    /\ alert = HiddenAlert
    /\ loginForm = EmptyLoginForm
    /\ passengerForm = EmptyPassengerForm
    /\ driverForm = EmptyDriverForm
    /\ token \in {NoToken} \cup StoredTokens
    /\ Authorization = NoHeader
    /\ pollerTimers = {}
    /\ reporterTimers = {}
    /\ alertTimers = 0
    /\ profileReq = FALSE
    /\ nearbyReqs = 0
    /\ reportReqs = 0
    /\ formReq = NoReq
    /\ rideRequest = InitialRideRequest
    /\ rideReq = <<>>
    /\ rides = <<>>
    /\ last = NoLast

\* a restore that fetches the profile without looking at the stored token
MountAlwaysFetches(hasGeolocation) ==
    /\ phase = "init"
    /\ phase' = "mounted"
    /\ IF hasGeolocation
       THEN /\ geoPending' = TRUE
            /\ Commit(user, currentLocation, FALSE)
       ELSE /\ geoPending' = FALSE
            /\ Commit(user, DefaultLocation, TRUE)
    /\ Authorization' = IF token # NoToken THEN Bearer(token) ELSE NoHeader
    /\ profileReq' = TRUE
    /\ UNCHANGED rideVars
    /\ last' = Did("mount")
    /\ UNCHANGED <<nearbyTaxis, isLoading, alert, formVars, token, alertTimers, formReq>>

\* the effects with [] dependencies, lines 82-109; hasGeolocation is
\* navigator.geolocation.  The customer-service fetch of lines 112-114 reads
\* and writes none of the state above
Mount(hasGeolocation) ==
    /\ phase = "init"
    /\ phase' = "mounted"
    /\ IF hasGeolocation
       THEN /\ geoPending' = TRUE
            /\ Commit(user, currentLocation, FALSE)
       ELSE /\ geoPending' = FALSE
            /\ Commit(user, DefaultLocation, TRUE)
    /\ IF token # NoToken
       THEN /\ Authorization' = Bearer(token)
            /\ profileReq' = TRUE
       ELSE UNCHANGED <<Authorization, profileReq>>
    /\ UNCHANGED rideVars
    /\ last' = Did("mount")
    /\ UNCHANGED <<nearbyTaxis, isLoading, alert, formVars, token, alertTimers, formReq>>

\* success callback of getCurrentPosition, lines 85-90
GeoSuccess(position) ==
    /\ geoPending
    /\ geoPending' = FALSE
    /\ Commit(user, position, TRUE)
    /\ UNCHANGED rideVars
    /\ last' = Did("geo_success")
    /\ UNCHANGED <<phase, nearbyTaxis, isLoading, alert, formVars, credVars,
                   alertTimers, profileReq, formReq>>

\* an error callback that asks for the position again
GeoErrorRetries ==
    /\ geoPending
    /\ geoPending' = TRUE
    /\ UNCHANGED rideVars
    /\ last' = Did("geo_error")
    /\ UNCHANGED <<phase, user, currentLocation, nearbyTaxis, isLoading, alert,
                   formVars, credVars, loopVars, alertTimers, profileReq, formReq>>

\* error callback of getCurrentPosition, lines 91-95
GeoError ==
    /\ geoPending
    /\ geoPending' = FALSE
    /\ Commit(user, DefaultLocation, TRUE)
    /\ UNCHANGED rideVars
    /\ last' = Did("geo_error")
    /\ UNCHANGED <<phase, nearbyTaxis, isLoading, alert, formVars, credVars,
                   alertTimers, profileReq, formReq>>

----------------------------------------------------------------------------
(* Session store *)

\* a profile fetch whose setUser does not re-run the effects
FetchUserProfileOkNoEffect(profile) ==
    /\ profileReq
    /\ profileReq' = FALSE
    /\ Commit(profile, currentLocation, FALSE)
    /\ UNCHANGED rideVars
    /\ last' = [Did("profile_ok") EXCEPT !.user = user, !.profile = profile]
    /\ UNCHANGED <<phase, geoPending, nearbyTaxis, isLoading, alert, formVars,
                   credVars, alertTimers, formReq>>

\* fetchUserProfile, lines 132-133: GET /api/me answered with a profile
FetchUserProfileOk(profile) ==
    /\ profileReq
    /\ profileReq' = FALSE
    /\ Commit(profile, currentLocation, TRUE)
    /\ UNCHANGED rideVars
    /\ last' = [Did("profile_ok") EXCEPT !.user = user, !.profile = profile]
    /\ UNCHANGED <<phase, geoPending, nearbyTaxis, isLoading, alert, formVars,
                   credVars, alertTimers, formReq>>

\* a catch branch that tells the user that the session expired
FetchUserProfileErrorNotifies(status) ==
    /\ profileReq
    /\ profileReq' = FALSE
    /\ token' = NoToken
    /\ Authorization' = NoHeader
    /\ showAlert("error", MsgLoginError)
    /\ UNCHANGED rideVars
    /\ last' = Did("profile_error")
    /\ UNCHANGED <<phase, geoPending, user, currentLocation, nearbyTaxis, isLoading,
                   formVars, loopVars, formReq>>

\* fetchUserProfile, lines 134-137: GET /api/me failed
FetchUserProfileError(status) ==
    /\ profileReq
    /\ profileReq' = FALSE
    /\ token' = NoToken
    /\ Authorization' = NoHeader
    /\ UNCHANGED rideVars
    /\ last' = Did("profile_error")
    /\ UNCHANGED <<phase, geoPending, user, currentLocation, nearbyTaxis, isLoading,
                   alert, formVars, loopVars, alertTimers, formReq>>

\* every input of the three forms is `required`: a form can be submitted
\* once the user has filled it in
Filled(kind) ==
    CASE kind = "login" -> loginForm = TypedLoginForm
      [] kind = "passenger" -> passengerForm = TypedPassengerForm
      [] kind = "driver" -> driverForm = TypedDriverForm

\* the onChange handlers of the inputs of one form (lines 316-486), taken
\* together: the user fills in the form, or erases what it holds.  The forms
\* are rendered only while !user (line 282); the user works on one form at a
\* time and leaves the forms alone while a submission is pending
EditForm(kind, fill) ==
    /\ phase = "mounted"
    /\ user = NullUser
    /\ ~isLoading
    /\ fill => \A k \in FormKinds : ~Filled(k)
    /\ ~fill => Filled(kind)
    /\ loginForm' = IF kind # "login" THEN loginForm
                    ELSE IF fill THEN TypedLoginForm ELSE EmptyLoginForm
    /\ passengerForm' = IF kind # "passenger" THEN passengerForm
                        ELSE IF fill THEN TypedPassengerForm ELSE EmptyPassengerForm
    /\ driverForm' = IF kind # "driver" THEN driverForm
                     ELSE IF fill THEN TypedDriverForm ELSE EmptyDriverForm
    /\ UNCHANGED rideVars
    /\ last' = Did("edit_form")
    /\ UNCHANGED <<phase, geoPending, user, currentLocation, nearbyTaxis, isLoading,
                   alert, credVars, loopVars, alertTimers, profileReq, formReq>>

\* a submit button that stays enabled while isLoading
SubmitWhileLoading(kind) ==
    /\ phase = "mounted"
    /\ user = NullUser
    /\ Filled(kind)
    /\ isLoading' = TRUE
    /\ formReq' = [kind |-> kind]
    /\ UNCHANGED rideVars
    /\ last' = Did("submit")
    /\ UNCHANGED <<phase, geoPending, user, currentLocation, nearbyTaxis, alert,
                   formVars, credVars, loopVars, alertTimers, profileReq>>

\* handleLogin / handlePassengerRegister / handleDriverRegister up to the
\* await (lines 162-167, 180-185, 199-204); the submit button is disabled
\* while isLoading (lines 332, 372, 490)
Submit(kind) ==
    /\ phase = "mounted"
    /\ user = NullUser
    /\ ~isLoading
    /\ Filled(kind)
    /\ isLoading' = TRUE
    /\ formReq' = [kind |-> kind]
    /\ UNCHANGED rideVars
    /\ last' = Did("submit")
    /\ UNCHANGED <<phase, geoPending, user, currentLocation, nearbyTaxis, alert,
                   formVars, credVars, loopVars, alertTimers, profileReq>>

\* a successful submission that leaves what was typed in the form
ClearNoForm(kind) == UNCHANGED formVars

\* the form a successful submission resets (lines 171, 189, 208-211)
ClearForm(kind) ==
    /\ loginForm' = IF kind = "login" THEN EmptyLoginForm ELSE loginForm
    /\ passengerForm' = IF kind = "passenger" THEN EmptyPassengerForm ELSE passengerForm
    /\ driverForm' = IF kind = "driver" THEN EmptyDriverForm ELSE driverForm

\* the notification of a successful submission (lines 172, 190, 212)
SuccessMessage(kind, message) == IF kind = "login" THEN MsgLoginOk ELSE message

\* an error notification that never shows the detail of the response
ErrorMessageAlwaysGeneric(kind, detail) ==
    IF kind = "login" THEN MsgLoginError ELSE MsgRegisterError

\* error.response?.data?.detail || '...' (lines 192, 214); line 174 for login
ErrorMessage(kind, detail) ==
    IF kind = "login" THEN MsgLoginError
    ELSE IF detail \in {Undefined, ""} THEN MsgRegisterError ELSE detail

\* the continuation of handleLogin / handle*Register after a 2xx response
\* (lines 168-172, 186-190, 205-212, then 177 / 196 / 218)
SubmitOk(kind, access_token, profile, message) ==
    /\ formReq = [kind |-> kind]
    /\ formReq' = NoReq
    /\ token' = access_token
    /\ Authorization' = Bearer(access_token)
    /\ Commit(profile, currentLocation, TRUE)
    /\ ClearForm(kind)
    /\ showAlert("success", SuccessMessage(kind, message))
    /\ isLoading' = FALSE
    /\ UNCHANGED rideVars
    /\ last' = [Did("submit_ok") EXCEPT !.user = user, !.kind = kind, !.profile = profile]
    /\ UNCHANGED <<phase, geoPending, nearbyTaxis, profileReq>>

\* a catch branch that also resets the submitted form
SubmitErrorClearsForm(kind, detail) ==
    /\ formReq = [kind |-> kind]
    /\ formReq' = NoReq
    /\ showAlert("error", ErrorMessage(kind, detail))
    /\ ClearForm(kind)
    /\ isLoading' = FALSE
    /\ UNCHANGED rideVars
    /\ last' = [Did("submit_error") EXCEPT !.kind = kind]
    /\ UNCHANGED <<phase, geoPending, user, currentLocation, nearbyTaxis,
                   credVars, loopVars, profileReq>>

\* the continuation of handleLogin / handle*Register in the catch branch
\* (lines 173-177, 191-196, 213-218)
SubmitError(kind, detail) ==
    /\ formReq = [kind |-> kind]
    /\ formReq' = NoReq
    /\ showAlert("error", ErrorMessage(kind, detail))
    /\ isLoading' = FALSE
    /\ UNCHANGED rideVars
    /\ last' = [Did("submit_error") EXCEPT !.kind = kind]
    /\ UNCHANGED <<phase, geoPending, user, currentLocation, nearbyTaxis, formVars,
                   credVars, loopVars, profileReq>>

\* a logout that leaves the persisted token in place
handleLogoutKeepsToken ==
    /\ phase = "mounted"
    /\ user # NullUser
    /\ token' = token
    /\ Authorization' = NoHeader
    /\ Commit(NullUser, currentLocation, TRUE)
    /\ nearbyTaxis' = <<>>
    /\ UNCHANGED rideVars
    /\ last' = [Did("logout") EXCEPT !.user = user, !.taxis = nearbyTaxis]
    /\ UNCHANGED <<phase, geoPending, isLoading, alert, formVars, alertTimers,
                   profileReq, formReq>>

\* handleLogout, lines 260-265; the button is rendered only while user (line 536)
handleLogout ==
    /\ phase = "mounted"
    /\ user # NullUser
    /\ token' = NoToken
    /\ Authorization' = NoHeader
    /\ Commit(NullUser, currentLocation, TRUE)
    /\ nearbyTaxis' = <<>>
    /\ UNCHANGED rideVars
    /\ last' = [Did("logout") EXCEPT !.user = user, !.taxis = nearbyTaxis]
    /\ UNCHANGED <<phase, geoPending, isLoading, alert, formVars, alertTimers,
                   profileReq, formReq>>

----------------------------------------------------------------------------
(* Nearby taxi poller *)

\* the interval of line 120 fires: fetchNearbyTaxis of the render that set it
PollerTick ==
    /\ \E c \in pollerTimers :
          IF FetchNearbyTaxisSends(c)
          THEN /\ nearbyReqs < MaxInFlight
               /\ nearbyReqs' = nearbyReqs + 1
          ELSE UNCHANGED nearbyReqs
    /\ UNCHANGED rideVars
    /\ last' = Did("poller_tick")
    /\ UNCHANGED <<phase, geoPending, user, currentLocation, nearbyTaxis, isLoading,
                   alert, formVars, credVars, pollerTimers, reporterTimers,
                   alertTimers, profileReq, reportReqs, formReq>>

\* a response appended to the held list
MergeTaxis(held, data) == held \o data

\* setNearbyTaxis(response.data), line 156
ReplaceTaxis(held, data) == data

\* fetchNearbyTaxis after a 2xx response, line 156
FetchNearbyTaxisOk(data) ==
    /\ nearbyReqs > 0
    /\ nearbyReqs' = nearbyReqs - 1
    /\ nearbyTaxis' = ReplaceTaxis(nearbyTaxis, data)
    /\ UNCHANGED rideVars
    /\ last' = [Did("nearby_ok") EXCEPT !.taxis = nearbyTaxis, !.data = data]
    /\ UNCHANGED <<phase, geoPending, user, currentLocation, isLoading, alert,
                   formVars, credVars, pollerTimers, reporterTimers, alertTimers,
                   profileReq, reportReqs, formReq>>

\* a catch branch that blanks the list
BlankTaxis(held) == <<>>

\* the list held after the catch branch of fetchNearbyTaxis, lines 157-159
KeepTaxis(held) == held

\* a catch branch that tells the user that the fetch failed
FetchNearbyTaxisErrorNotifies(status) ==
    /\ nearbyReqs > 0
    /\ nearbyReqs' = nearbyReqs - 1
    /\ nearbyTaxis' = KeepTaxis(nearbyTaxis)
    /\ showAlert("error", MsgRideError)
    /\ UNCHANGED rideVars
    /\ last' = [Did("nearby_error") EXCEPT !.taxis = nearbyTaxis]
    /\ UNCHANGED <<phase, geoPending, user, currentLocation, isLoading,
                   formVars, credVars, pollerTimers, reporterTimers,
                   profileReq, reportReqs, formReq>>

\* fetchNearbyTaxis in the catch branch, lines 157-159
FetchNearbyTaxisError(status) ==
    /\ nearbyReqs > 0
    /\ nearbyReqs' = nearbyReqs - 1
    /\ nearbyTaxis' = KeepTaxis(nearbyTaxis)
    /\ UNCHANGED rideVars
    /\ last' = [Did("nearby_error") EXCEPT !.taxis = nearbyTaxis]
    /\ UNCHANGED <<phase, geoPending, user, currentLocation, isLoading, alert,
                   formVars, credVars, pollerTimers, reporterTimers, alertTimers,
                   profileReq, reportReqs, formReq>>

----------------------------------------------------------------------------
(* Location reporter *)

\* the interval of line 277 fires: handleLocationUpdate of the render that set it
ReporterTick ==
    /\ \E c \in reporterTimers :
          IF HandleLocationUpdateSends(c)
          THEN /\ reportReqs < MaxInFlight
               /\ reportReqs' = reportReqs + 1
          ELSE UNCHANGED reportReqs
    /\ UNCHANGED rideVars
    /\ last' = Did("reporter_tick")
    /\ UNCHANGED <<phase, geoPending, user, currentLocation, nearbyTaxis, isLoading,
                   alert, formVars, credVars, pollerTimers, reporterTimers,
                   alertTimers, profileReq, nearbyReqs, formReq>>

\* handleLocationUpdate after a 2xx response, lines 225-228
HandleLocationUpdateOk ==
    /\ reportReqs > 0
    /\ reportReqs' = reportReqs - 1
    /\ UNCHANGED rideVars
    /\ last' = Did("report_ok")
    /\ UNCHANGED <<phase, geoPending, user, currentLocation, nearbyTaxis, isLoading,
                   alert, formVars, credVars, pollerTimers, reporterTimers,
                   alertTimers, profileReq, nearbyReqs, formReq>>

\* a check that takes every 4xx status for an expired activation
AnyClientError(status) == status >= 400 /\ status < 500

\* error.response?.status === 403, line 231
ActivationExpired(status) == status = 403

\* a catch branch that sends the report again at once
HandleLocationUpdateErrorResends(status) ==
    /\ reportReqs > 0
    /\ reportReqs' = reportReqs
    /\ IF ActivationExpired(status)
       THEN showAlert("error", MsgActivationExpired)
       ELSE UNCHANGED <<alert, alertTimers>>
    /\ UNCHANGED rideVars
    /\ last' = Did(IF status = 403 THEN "report_403" ELSE "report_error")
    /\ UNCHANGED <<phase, geoPending, user, currentLocation, nearbyTaxis, isLoading,
                   formVars, credVars, pollerTimers, reporterTimers, profileReq,
                   nearbyReqs, formReq>>

\* handleLocationUpdate in the catch branch, lines 229-234
HandleLocationUpdateError(status) ==
    /\ reportReqs > 0
    /\ reportReqs' = reportReqs - 1
    /\ IF ActivationExpired(status)
       THEN showAlert("error", MsgActivationExpired)
       ELSE UNCHANGED <<alert, alertTimers>>
    /\ UNCHANGED rideVars
    /\ last' = Did(IF status = 403 THEN "report_403" ELSE "report_error")
    /\ UNCHANGED <<phase, geoPending, user, currentLocation, nearbyTaxis, isLoading,
                   formVars, credVars, pollerTimers, reporterTimers, profileReq,
                   nearbyReqs, formReq>>

----------------------------------------------------------------------------
(* Ride request *)

\* the onChange handlers of the ride form, lines 609, 618, 628, 641; the form
\* is rendered for a passenger (line 595) and the user leaves it alone while
\* a submission is pending
EditRideRequest(field, value) ==
    /\ phase = "mounted"
    /\ user.user_type = "passenger"
    /\ ~isLoading
    /\ CASE field = "pickup_address" ->
              /\ value \in PickupAddresses
              /\ rideRequest' = [rideRequest EXCEPT !.pickup_address = value]
         [] field = "destination_address" ->
              /\ value \in DestinationAddresses
              /\ rideRequest' = [rideRequest EXCEPT !.destination_address = value]
         [] field = "passenger_count" ->
              /\ value \in PassengerCountOptions
              /\ rideRequest' = [rideRequest EXCEPT !.passenger_count = Str(value)]
         [] field = "has_luggage" ->
              /\ value \in LuggageOptions
              /\ rideRequest' = [rideRequest EXCEPT !.has_luggage = (value = "true")]
    /\ rideRequest' # rideRequest
    /\ last' = Did("edit_ride")
    /\ UNCHANGED <<phase, geoPending, user, currentLocation, nearbyTaxis, isLoading,
                   alert, formVars, credVars, loopVars, alertTimers, profileReq,
                   formReq, rideReq, rides>>

\* a form whose destination input is not required
RideFormUnchecked == TRUE

\* the browser's constraint validation of the ride form: the destination
\* input is `required` (line 619); a form that fails it is not submitted
RideFormValid == rideRequest.destination_address # ""

\* a body that sends the pickup address as typed, empty or not
RideBodyAsTyped ==
    [pickup_latitude |-> currentLocation.lat,
     pickup_longitude |-> currentLocation.lng,
     pickup_address |-> rideRequest.pickup_address,
     destination_address |-> rideRequest.destination_address,
     passenger_count |-> parseInt(rideRequest.passenger_count),
     has_luggage |-> rideRequest.has_luggage]

\* the body of POST /api/rides/request, lines 243-250
RideBody ==
    [pickup_latitude |-> currentLocation.lat,
     pickup_longitude |-> currentLocation.lng,
     pickup_address |-> IF rideRequest.pickup_address # ""
                        THEN rideRequest.pickup_address
                        ELSE CurrentLocationSentinel,
     destination_address |-> rideRequest.destination_address,
     passenger_count |-> parseInt(rideRequest.passenger_count),
     has_luggage |-> rideRequest.has_luggage]

\* a handler without the early return of line 239
SubmitRideWithoutPosition ==
    /\ phase = "mounted"
    /\ user.user_type = "passenger"
    /\ ~isLoading
    /\ RideFormValid
    /\ isLoading' = TRUE
    /\ Len(rideReq) < MaxInFlight
    /\ rideReq' = Append(rideReq, RideBody)
    /\ last' = Did(IF currentLocation = NullLocation THEN "ride_no_position"
                   ELSE "ride_submit")
    /\ UNCHANGED <<phase, geoPending, user, currentLocation, nearbyTaxis, alert,
                   formVars, credVars, loopVars, alertTimers, profileReq, formReq,
                   rideRequest, rides>>

\* handleRideRequest up to the await, lines 237-250; the submit button is
\* disabled while isLoading (line 649)
SubmitRide ==
    /\ phase = "mounted"
    /\ user.user_type = "passenger"
    /\ ~isLoading
    /\ RideFormValid
    /\ IF currentLocation = NullLocation
       THEN /\ last' = Did("ride_no_position")
            /\ UNCHANGED <<isLoading, rideReq>>
       ELSE /\ isLoading' = TRUE
            /\ Len(rideReq) < MaxInFlight
            /\ rideReq' = Append(rideReq, RideBody)
            /\ last' = Did("ride_submit")
    /\ UNCHANGED <<phase, geoPending, user, currentLocation, nearbyTaxis, alert,
                   formVars, credVars, loopVars, alertTimers, profileReq, formReq,
                   rideRequest, rides>>

\* a success continuation that leaves the form as submitted
RideRequestOkKeepsForm ==
    /\ rideReq # <<>>
    /\ rideReq' = Tail(rideReq)
    /\ showAlert("success", MsgRideOk)
    /\ isLoading' = FALSE
    /\ last' = Did("ride_ok")
    /\ UNCHANGED <<phase, geoPending, user, currentLocation, nearbyTaxis, formVars,
                   credVars, loopVars, profileReq, formReq, rideRequest, rides>>

\* the continuation of handleRideRequest after a 2xx response, lines 252-253
\* and 257; the response is not read
RideRequestOk ==
    /\ rideReq # <<>>
    /\ rideReq' = Tail(rideReq)
    /\ showAlert("success", MsgRideOk)
    /\ rideRequest' = InitialRideRequest
    /\ isLoading' = FALSE
    /\ last' = Did("ride_ok")
    /\ UNCHANGED <<phase, geoPending, user, currentLocation, nearbyTaxis, formVars,
                   credVars, loopVars, profileReq, formReq, rides>>

\* a catch branch that resets the form
RideRequestErrorClearsForm(status) ==
    /\ rideReq # <<>>
    /\ rideReq' = Tail(rideReq)
    /\ showAlert("error", MsgRideError)
    /\ rideRequest' = InitialRideRequest
    /\ isLoading' = FALSE
    /\ last' = Did("ride_error")
    /\ UNCHANGED <<phase, geoPending, user, currentLocation, nearbyTaxis, formVars,
                   credVars, loopVars, profileReq, formReq, rides>>

\* the continuation of handleRideRequest in the catch branch, lines 254-257
RideRequestError(status) ==
    /\ rideReq # <<>>
    /\ rideReq' = Tail(rideReq)
    /\ showAlert("error", MsgRideError)
    /\ isLoading' = FALSE
    /\ last' = Did("ride_error")
    /\ UNCHANGED <<phase, geoPending, user, currentLocation, nearbyTaxis, formVars,
                   credVars, loopVars, profileReq, formReq, rideRequest, rides>>

----------------------------------------------------------------------------
(* Teardown *)

\* the component is unmounted: React runs the cleanup of every effect that
\* returned one (lines 121 and 278); no other effect of the component
\* returns a cleanup
Unmount ==
    /\ phase = "mounted"
    /\ phase' = "unmounted"
    /\ pollerTimers' = PollerCleanup(pollerTimers, user, currentLocation)
    /\ reporterTimers' = ReporterCleanup(reporterTimers, user, currentLocation)
    /\ last' = Did("unmount")
    /\ UNCHANGED <<geoPending, user, currentLocation, nearbyTaxis, isLoading, alert,
                   formVars, credVars, alertTimers, profileReq, nearbyReqs,
                   reportReqs, formReq, rideVars>>

----------------------------------------------------------------------------
(* Notifications *)

\* a timeout whose callback leaves the notification displayed
AlertTimeoutKeepsAlert ==
    /\ alertTimers > 0
    /\ alertTimers' = alertTimers - 1
    /\ UNCHANGED rideVars
    /\ last' = Did("alert_timeout")
    /\ UNCHANGED <<phase, geoPending, user, currentLocation, nearbyTaxis, isLoading,
                   alert, formVars, credVars, loopVars, profileReq, formReq>>

\* the timeout of line 127 fires
AlertTimeout ==
    /\ alertTimers > 0
    /\ alertTimers' = alertTimers - 1
    /\ alert' = HiddenAlert
    /\ UNCHANGED rideVars
    /\ last' = Did("alert_timeout")
    /\ UNCHANGED <<phase, geoPending, user, currentLocation, nearbyTaxis, isLoading,
                   formVars, credVars, loopVars, profileReq, formReq>>

----------------------------------------------------------------------------

Next ==
    \/ \E g \in BOOLEAN : Mount(g)
    \/ \E p \in DevicePositions : GeoSuccess(p)
    \/ GeoError
    \/ \E p \in Profiles : FetchUserProfileOk(p)
    \/ \E s \in ErrorStatuses : FetchUserProfileError(s)
    \/ \E k \in FormKinds, f \in BOOLEAN : EditForm(k, f)
    \/ \E k \in FormKinds : Submit(k)
    \/ \E k \in FormKinds, t \in IssuedTokens, p \in Profiles, m \in ServerMessages :
          SubmitOk(k, t, p, m)
    \/ \E k \in FormKinds, d \in Details : SubmitError(k, d)
    \/ handleLogout
    \/ PollerTick
    \/ \E l \in TaxiLists : FetchNearbyTaxisOk(l)
    \/ \E s \in ErrorStatuses : FetchNearbyTaxisError(s)
    \/ ReporterTick
    \/ HandleLocationUpdateOk
    \/ \E s \in ErrorStatuses : HandleLocationUpdateError(s)
    \/ AlertTimeout

Spec == Init /\ [][Next]_vars

\* the component is mounted
Mounted == phase = "mounted"

\* the session of a passenger who asks for rides, opened by the restore of a
\* persisted token, up to the teardown of the component; after the teardown
\* only the timeouts that are still pending are followed
RideNext ==
    \/ \E g \in BOOLEAN : Mount(g)
    \/ Mounted /\ \E p \in DevicePositions : GeoSuccess(p)
    \/ Mounted /\ GeoError
    \/ Mounted /\ \E p \in Profiles : FetchUserProfileOk(p)
    \/ Mounted /\ \E s \in ErrorStatuses : FetchUserProfileError(s)
    \/ handleLogout
    \/ PollerTick
    \/ Mounted /\ \E l \in TaxiLists : FetchNearbyTaxisOk(l)
    \/ Mounted /\ \E s \in ErrorStatuses : FetchNearbyTaxisError(s)
    \/ ReporterTick
    \/ Mounted /\ HandleLocationUpdateOk
    \/ Mounted /\ \E s \in ErrorStatuses : HandleLocationUpdateError(s)
    \/ \E f \in RideFields, v \in PickupAddresses \cup DestinationAddresses
                                 \cup PassengerCountOptions \cup LuggageOptions :
          EditRideRequest(f, v)
    \/ SubmitRide
    \/ Mounted /\ RideRequestOk
    \/ Mounted /\ \E s \in ErrorStatuses : RideRequestError(s)
    \/ Unmount
    \/ AlertTimeout

RideSpec == Init /\ [][RideNext]_vars

\* the same session, where a pending timeout fires in the end: the event
\* loop runs the callback of setTimeout once its 5 s have passed
NotifySpec == Init /\ [][RideNext]_vars /\ WF_vars(AlertTimeout)

\* every request that can fail, with its failure handler: the whole of Next
\* and the ride request, where the user fills in forms without erasing
\* them, the backend finds no taxi nearby and the passenger types the
\* destination only
RetryNext ==
    \/ \E g \in BOOLEAN : Mount(g)
    \/ \E p \in DevicePositions : GeoSuccess(p)
    \/ GeoError
    \/ \E p \in Profiles : FetchUserProfileOk(p)
    \/ \E s \in ErrorStatuses : FetchUserProfileError(s)
    \/ \E k \in FormKinds : EditForm(k, TRUE)
    \/ \E k \in FormKinds : Submit(k)
    \/ \E k \in FormKinds, t \in IssuedTokens, p \in Profiles, m \in ServerMessages :
          SubmitOk(k, t, p, m)
    \/ \E k \in FormKinds, d \in Details : SubmitError(k, d)
    \/ handleLogout
    \/ PollerTick
    \/ FetchNearbyTaxisOk(<<>>)
    \/ \E s \in ErrorStatuses : FetchNearbyTaxisError(s)
    \/ ReporterTick
    \/ HandleLocationUpdateOk
    \/ \E s \in ErrorStatuses : HandleLocationUpdateError(s)
    \/ EditRideRequest("destination_address", "Mall")
    \/ SubmitRide
    \/ RideRequestOk
    \/ \E s \in ErrorStatuses : RideRequestError(s)
    \/ AlertTimeout

RetrySpec == Init /\ [][RetryNext]_vars

----------------------------------------------------------------------------
(* Properties *)

ActivatedDriver == [user_type |-> "driver", is_activated |-> TRUE]
PendingDriver == [user_type |-> "driver", is_activated |-> FALSE]

\* C1: while no profile is held -- from handleLogout until a new session is
\* established -- neither the nearby-taxi interval nor the driver-location
\* interval exists, and no tick of either runs
NoTickAfterLogout ==
    /\ user = NullUser => pollerTimers = {} /\ reporterTimers = {}
    /\ last.op \in {"poller_tick", "reporter_tick"} => user # NullUser

\* handleLogout has just ended a session in which both loops were running
LogoutStoppedBothLoops ==
    /\ last.op = "logout"
    /\ last.user = ActivatedDriver
    /\ currentLocation # NullLocation
    /\ pollerTimers = {}
    /\ reporterTimers = {}

\* C2: no profile is held only before the first session and after a logout;
\* the held taxi list is empty then, whatever response arrives
TaxisEmptyWhileLoggedOut == user = NullUser => nearbyTaxis = <<>>

\* C3: a session that is anonymous, holds no credential and has no login or
\* registration pending stays anonymous
AnonymousUntilSubmit ==
    [][(user = NullUser /\ token = NoToken /\ formReq = NoReq) => user' = NullUser]_vars

\* C4: right after handleLogout the persisted token, the Authorization
\* header and the profile are absent and the taxi list is empty
LogoutDiscardsSession ==
    last.op = "logout" =>
        /\ token = NoToken
        /\ Authorization = NoHeader
        /\ user = NullUser
        /\ nearbyTaxis = <<>>

\* handleLogout has just ended a session that held a credential and taxis
LogoutWithTaxisHeld ==
    /\ last.op = "logout"
    /\ last.taxis # <<>>
    /\ last.user # NullUser
    /\ token = NoToken

\* C5: right after a failed nearby-taxi fetch the held list is the list held
\* before the failure was handled
FailedFetchKeepsTaxis == last.op = "nearby_error" => nearbyTaxis = last.taxis

\* a fetch has just failed while a non-empty list was held
FailedFetchWithTaxisHeld ==
    /\ last.op = "nearby_error"
    /\ last.taxis # <<>>
    /\ nearbyTaxis # <<>>

\* C6: right after a successful nearby-taxi fetch the held list is the
\* response's list
SuccessfulFetchReplacesTaxis == last.op = "nearby_ok" => nearbyTaxis = last.data

\* a response has just replaced a non-empty list
FetchReplacedHeldTaxis ==
    /\ last.op = "nearby_ok"
    /\ last.taxis # <<>>
    /\ nearbyTaxis = last.data

\* C7: a nearby-taxi interval exists exactly when a profile is held and a
\* position is known, whatever the role
PollerActiveIffSessionAndPosition ==
    pollerTimers # {} <=> (user # NullUser /\ currentLocation # NullLocation)

\* the poller runs in a passenger session that a login or registration opened
PollerRunsForPassenger ==
    /\ last.op = "submit_ok"
    /\ user.user_type = "passenger"
    /\ currentLocation # NullLocation
    /\ pollerTimers # {}

\* C8: a step that sends a driver location report ends in a state where a
\* profile is held, its role is driver, is_activated is true and a position
\* is known
ReportOnlyForActivatedDriver ==
    [][reportReqs' > reportReqs =>
         /\ user' # NullUser
         /\ user'.user_type = "driver"
         /\ user'.is_activated
         /\ currentLocation' # NullLocation]_vars

\* the interval of an activated driver has just sent a report
ReporterTickSentReport ==
    /\ last.op = "reporter_tick"
    /\ user = ActivatedDriver
    /\ reportReqs > 0

\* C9: when a profile with role driver and is_activated = true replaces a
\* held driver profile with is_activated = false while a position is known,
\* that step sends one report and leaves a driver-location interval running
RefreshActivatesReporter ==
    [][(/\ user = PendingDriver
        /\ user' = ActivatedDriver
        /\ currentLocation # NullLocation) =>
         /\ reportReqs' = reportReqs + 1
         /\ reporterTimers' # {}]_vars

\* GET /api/me has just replaced a pending driver profile by an activated one
RefreshedPendingDriver ==
    /\ last.op = "profile_ok"
    /\ last.user = PendingDriver
    /\ user = ActivatedDriver
    /\ currentLocation # NullLocation
    /\ reporterTimers # {}

\* C10: handling a failed location report leaves the driver-location
\* intervals as they are; with status 403 it posts the activation-expired
\* error notification, with any other status it posts nothing
ReportErrorNotifiesOn403Only ==
    [][last'.op \in {"report_403", "report_error"} =>
         \A s \in ErrorStatuses :
           HandleLocationUpdateError(s) =>
             /\ reporterTimers' = reporterTimers
             /\ IF s = 403
                THEN /\ alert' = [show |-> TRUE, type |-> "error",
                                  message |-> MsgActivationExpired]
                     /\ alertTimers' = alertTimers + 1
                ELSE /\ alert' = alert
                     /\ alertTimers' = alertTimers]_vars

\* a 403 has just been handled while the driver-location interval is running
Report403WhileReporting ==
    /\ last.op = "report_403"
    /\ reporterTimers # {}
    /\ alert.show
    /\ alert.message = MsgActivationExpired

\* C11: right after a 403 on a location report the held profile is no longer
\* that of an activated driver, so the reporter's predicate is false
ActivationLapsesOn403 ==
    last.op = "report_403" =>
        ~(user # NullUser /\ user.user_type = "driver" /\ user.is_activated)

\* C12: at most one dismissal timeout of the notification is pending
AtMostOneDismissalTimer == alertTimers <= 1

\* C13: each loop has at most one request in flight
TicksSerialized == nearbyReqs <= 1 /\ reportReqs <= 1

\* the tasks that change `user` or `currentLocation`, and so re-run the effects
EffectOps == {"mount", "geo_success", "geo_error", "profile_ok", "submit_ok", "logout"}

\* C14: a task that re-runs an effect while its condition holds (an
\* activation of the loop) sends exactly one request of that loop, a tick of
\* a loop sends exactly one, and no other task sends any
OneImmediateRequestPerActivation ==
    [][LET fetched == nearbyReqs' - nearbyReqs
           reported == reportReqs' - reportReqs
           pollerOn == user' # NullUser /\ currentLocation' # NullLocation
           reporterOn == /\ user' # NullUser
                         /\ user'.user_type = "driver"
                         /\ user'.is_activated
                         /\ currentLocation' # NullLocation
       IN  /\ last'.op = "poller_tick" => fetched = 1 /\ reported = 0
           /\ last'.op = "reporter_tick" => reported = 1 /\ fetched = 0
           /\ last'.op \in EffectOps =>
                 /\ fetched = (IF pollerOn THEN 1 ELSE 0)
                 /\ reported = (IF reporterOn THEN 1 ELSE 0)
           /\ last'.op \notin EffectOps \cup {"poller_tick", "reporter_tick"} =>
                 fetched <= 0 /\ reported <= 0]_vars

\* the position has just become known in the session of an activated driver:
\* both loops started, each with one request in flight
ActivationSentOneRequest ==
    /\ last.op = "geo_success"
    /\ user = ActivatedDriver
    /\ nearbyReqs = 1
    /\ reportReqs = 1
    /\ pollerTimers # {}
    /\ reporterTimers # {}

\* C15: right after start-up GET /api/me is in flight exactly when a token
\* is persisted, with that token in the Authorization header, and without a
\* token no header is set and the session is anonymous; right after a
\* successful answer the held profile is the returned one
RestoreFetchesIffTokenStored ==
    /\ last.op = "mount" =>
          /\ profileReq <=> token # NoToken
          /\ token # NoToken => Authorization = <<"Bearer", token>>
          /\ token = NoToken => Authorization = NoHeader
          /\ user = NullUser
    /\ last.op = "profile_ok" => user = last.profile /\ user \in Profiles

\* the start-up fetch has just authenticated an anonymous session that
\* still holds the persisted token
RestoreOpenedSession ==
    /\ last.op = "profile_ok"
    /\ last.user = NullUser
    /\ user \in Profiles
    /\ token \in StoredTokens
    /\ Authorization = <<"Bearer", token>>

\* C16: handling a failed GET /api/me removes the persisted token and the
\* Authorization header and leaves the notification and its timeouts as
\* they are, whatever the error
RestoreFailureIsSilent ==
    [][last'.op = "profile_error" =>
         \A s \in ErrorStatuses :
           FetchUserProfileError(s) =>
             /\ token' = NoToken
             /\ Authorization' = NoHeader
             /\ alert' = alert
             /\ alertTimers' = alertTimers]_vars

\* the start-up fetch has just failed in an anonymous session: the
\* credential is gone and nothing is displayed
RestoreFailedSilently ==
    /\ last.op = "profile_error"
    /\ user = NullUser
    /\ token = NoToken
    /\ Authorization = NoHeader
    /\ ~alert.show

\* C17: right after a failed GET /api/me no profile is held
RestoreFailureResetsSession == last.op = "profile_error" => user = NullUser

\* C18: right after a successful login or registration the returned
\* credential is in persistent storage and in the Authorization header, the
\* profile is the returned user, the submitted form is empty and a success
\* notification is displayed (a fixed message for login, the message of the
\* response for a registration)
SubmitSuccessOpensSession ==
    last.op = "submit_ok" =>
        /\ token \in IssuedTokens
        /\ Authorization = <<"Bearer", token>>
        /\ user = last.profile
        /\ user \in Profiles
        /\ last.kind = "login" => loginForm = EmptyLoginForm
        /\ last.kind = "passenger" => passengerForm = EmptyPassengerForm
        /\ last.kind = "driver" => driverForm = EmptyDriverForm
        /\ alert.show
        /\ alert.type = "success"
        /\ alert.message = IF last.kind = "login" THEN MsgLoginOk
                           ELSE "Registered successfully"

\* a driver registration has just succeeded from the anonymous state
DriverRegistrationSucceeded ==
    /\ last.op = "submit_ok"
    /\ last.kind = "driver"
    /\ last.user = NullUser
    /\ user \in Profiles
    /\ token \in IssuedTokens
    /\ driverForm = EmptyDriverForm

\* C19: handling a failed login displays the login error notification and
\* leaves the profile, the persisted token, the Authorization header, the
\* login form, both interval timers and the requests in flight as they are
FailedLoginOnlyNotifies ==
    [][last'.op = "submit_error" =>
         \A d \in Details :
           SubmitError("login", d) =>
             /\ alert' = [show |-> TRUE, type |-> "error", message |-> MsgLoginError]
             /\ user' = user
             /\ token' = token
             /\ Authorization' = Authorization
             /\ loginForm' = loginForm
             /\ pollerTimers' = pollerTimers
             /\ reporterTimers' = reporterTimers
             /\ nearbyReqs' = nearbyReqs
             /\ reportReqs' = reportReqs]_vars

\* a login has just failed in an anonymous session: what was typed is still
\* in the form and no loop runs
LoginFailedAnonymous ==
    /\ last.op = "submit_error"
    /\ last.kind = "login"
    /\ user = NullUser
    /\ token = NoToken
    /\ Authorization = NoHeader
    /\ loginForm = TypedLoginForm
    /\ pollerTimers = {}
    /\ alert.show
    /\ alert.message = MsgLoginError

\* C20: handling a failed passenger or driver registration displays an error
\* notification with the detail of the response when it has a non-empty one
\* and with the generic registration error otherwise, and leaves the
\* profile, the credential and the registration forms as they are
FailedRegistrationShowsDetail ==
    [][last'.op = "submit_error" =>
         \A k \in {"passenger", "driver"} : \A d \in Details :
           SubmitError(k, d) =>
             /\ alert' = [show |-> TRUE, type |-> "error",
                          message |-> IF d \in {"undefined", ""}
                                      THEN MsgRegisterError ELSE d]
             /\ user' = user
             /\ token' = token
             /\ Authorization' = Authorization
             /\ passengerForm' = passengerForm
             /\ driverForm' = driverForm]_vars

\* a driver registration has just been refused with a detail, in an
\* anonymous session
DriverRegistrationRefusedWithDetail ==
    /\ last.op = "submit_error"
    /\ last.kind = "driver"
    /\ user = NullUser
    /\ token = NoToken
    /\ driverForm = TypedDriverForm
    /\ alert.show
    /\ alert.message = "Phone number already registered"

\* C21: every ride request in flight carries an integer passenger_count in
\* 1..4 and a non-empty destination_address
RideRequestIsValid ==
    \A i \in 1..Len(rideReq) :
        /\ rideReq[i].passenger_count \in 1..4
        /\ rideReq[i].destination_address # ""

\* a request for four passengers was just submitted from a form whose
\* passenger_count holds the text of the fourth option
SubmittedRideForFour ==
    /\ last.op = "ride_submit"
    /\ rideRequest.passenger_count = Str("4")
    /\ Len(rideReq) = 1
    /\ rideReq[1].passenger_count = 4
    /\ rideReq[1].destination_address = "Mall"

\* C22: a submission that sends a ride request sends the pickup address of
\* the form when it is non-empty and the current-location sentinel when it
\* is empty, with the coordinates of the position held when it is
\* submitted, and leaves the form as it is
PickupDefaultsToSentinel ==
    [][(SubmitRide /\ currentLocation # NullLocation) =>
         /\ Len(rideReq') = Len(rideReq) + 1
         /\ LET body == rideReq'[Len(rideReq')] IN
              /\ body.pickup_address =
                   IF rideRequest.pickup_address = "" THEN "current location"
                   ELSE rideRequest.pickup_address
              /\ body.pickup_latitude = currentLocation.lat
              /\ body.pickup_longitude = currentLocation.lng
         /\ rideRequest' = rideRequest]_vars

\* a request was just submitted from the device position with the pickup
\* address left empty
SubmittedRideWithoutPickup ==
    /\ last.op = "ride_submit"
    /\ currentLocation \in DevicePositions
    /\ rideRequest.pickup_address = ""
    /\ Len(rideReq) = 1
    /\ rideReq[1].pickup_address = "current location"
    /\ rideReq[1].pickup_latitude = currentLocation.lat

\* C23: right after a ride request succeeded the form holds its initial
\* values, the success notification is displayed and the list of rides is
\* still empty
RideSuccessResetsForm ==
    last.op = "ride_ok" =>
        /\ rideRequest = [pickup_address |-> "", destination_address |-> "",
                          passenger_count |-> Num(1), has_luggage |-> FALSE]
        /\ alert = [show |-> TRUE, type |-> "success", message |-> MsgRideOk]
        /\ rides = <<>>

\* a ride request has just succeeded
RideRequestSucceeded ==
    /\ last.op = "ride_ok"
    /\ user.user_type = "passenger"
    /\ rideRequest = InitialRideRequest
    /\ rideReq = <<>>
    /\ alert.show
    /\ alert.message = MsgRideOk

\* C24: handling a failed ride request displays the error notification,
\* leaves the four fields of the form as they are and sends nothing
RideFailureKeepsForm ==
    [][\A s \in ErrorStatuses :
         RideRequestError(s) =>
           /\ alert' = [show |-> TRUE, type |-> "error", message |-> MsgRideError]
           /\ rideRequest' = rideRequest
           /\ Len(rideReq') = Len(rideReq) - 1
           /\ UNCHANGED <<nearbyReqs, reportReqs, formReq, profileReq>>]_vars

\* a ride request has just failed and the form still holds what was typed
RideRequestFailed ==
    /\ last.op = "ride_error"
    /\ rideRequest.destination_address = "Mall"
    /\ rideRequest.pickup_address = "Airport"
    /\ rideReq = <<>>
    /\ alert.show
    /\ alert.message = MsgRideError

\* C25: once the component is torn down no poller interval, no reporter
\* interval and no dismissal timeout is pending
TeardownCancelsEveryTimer ==
    phase = "unmounted" =>
        /\ pollerTimers = {}
        /\ reporterTimers = {}
        /\ alertTimers = 0

\* C26: the position is requested at mount only; it is set once, to the
\* device position by the success callback and to the default coordinate
\* by the error callback or by a mount without the geolocation capability,
\* and once set it never changes
PositionSetOnce ==
    [][/\ (geoPending' /\ ~geoPending) => (last'.op = "mount" /\ phase = "init")
       /\ currentLocation # NullLocation => currentLocation' = currentLocation
       /\ currentLocation' # currentLocation =>
            /\ ~geoPending'
            /\ last'.op \in {"mount", "geo_success", "geo_error"}
            /\ last'.op = "geo_success" => (geoPending /\ currentLocation' \in DevicePositions)
            /\ last'.op = "geo_error" => (geoPending /\ currentLocation' = DefaultLocation)
            /\ last'.op = "mount" => currentLocation' = DefaultLocation
       /\ last'.op \in {"geo_success", "geo_error"} =>
            (~geoPending' /\ currentLocation' # NullLocation)]_vars

\* the platform has just denied the position: the default coordinate is held
\* and no request is pending
FellBackToDefaultPosition ==
    /\ last.op = "geo_error"
    /\ currentLocation = DefaultLocation
    /\ ~geoPending

\* C27: handling a failed nearby-taxi fetch, or a failed location report
\* whose status is not 403, leaves the notification, its timeouts, the
\* profile, the credential and both interval timers as they are
TransientFailuresAreSilent ==
    [][last'.op \in {"nearby_error", "report_error"} =>
         UNCHANGED <<alert, alertTimers, user, token, Authorization,
                     pollerTimers, reporterTimers>>]_vars

\* a location report has just failed with another status than 403 while
\* the reporter runs and nothing is displayed
ReportFailedSilently ==
    /\ last.op = "report_error"
    /\ user = ActivatedDriver
    /\ reporterTimers # {}
    /\ pollerTimers # {}
    /\ ~alert.show

\* C28: a failure handler sends nothing: the failed request leaves the
\* requests in flight of its kind and no request of any kind joins them
NoResendOnFailure ==
    [][/\ last'.op = "nearby_error" =>
            /\ nearbyReqs' = nearbyReqs - 1
            /\ UNCHANGED <<reportReqs, formReq, rideReq, profileReq>>
       /\ last'.op \in {"report_403", "report_error"} =>
            /\ reportReqs' = reportReqs - 1
            /\ UNCHANGED <<nearbyReqs, formReq, rideReq, profileReq>>
       /\ last'.op = "ride_error" =>
            /\ rideReq' = Tail(rideReq)
            /\ UNCHANGED <<nearbyReqs, reportReqs, formReq, profileReq>>
       /\ last'.op = "submit_error" =>
            /\ formReq' = NoReq
            /\ UNCHANGED <<nearbyReqs, reportReqs, rideReq, profileReq>>]_vars

\* a ride request has just failed while the poller runs: nothing is in
\* flight for the ride and the form can be submitted again
RideFailedNothingResent ==
    /\ last.op = "ride_error"
    /\ rideReq = <<>>
    /\ pollerTimers # {}
    /\ ~isLoading
    /\ rideRequest.destination_address = "Mall"

\* C29: while the dismissal timeout of the notification posted last is
\* pending, that notification is displayed
NotificationOutlivesEarlierTimers == alertTimers > 0 => alert.show

\* C30: a notification that is displayed is hidden in the end, whatever is
\* posted in between
EveryNotificationIsHidden == alert.show ~> ~alert.show

\* the last pending timeout has just fired and nothing is displayed
LastTimeoutHidNotification ==
    /\ last.op = "alert_timeout"
    /\ alertTimers = 0
    /\ ~alert.show
    /\ phase = "mounted"

\* C31: whenever a profile is held, a token is in persistent storage and the
\* Authorization header carries it
ProfileImpliesCredential ==
    user # NullUser => (token # NoToken /\ Authorization = <<"Bearer", token>>)

\* C32: the response of the start-up profile fetch leaves a profile that is
\* already held (set by a login or a registration) as it is
LateRestoreKeepsLoginProfile ==
    (last.op = "profile_ok" /\ last.user # NullUser) => user = last.user

\* C33: at most one poller interval and at most one reporter interval is
\* live at any time
AtMostOneIntervalPerLoop ==
    /\ Cardinality(pollerTimers) <= 1
    /\ Cardinality(reporterTimers) <= 1

\* the start-up fetch has just replaced the profile of a session whose
\* poller was running: one poller interval is live, set by the last render
ProfileReplacedWhilePolling ==
    /\ last.op = "profile_ok"
    /\ last.user # NullUser
    /\ last.user # user
    /\ currentLocation # NullLocation
    /\ pollerTimers = {[user |-> user, currentLocation |-> currentLocation]}

\* C34: isLoading is true exactly while a login, a registration or a ride
\* request is in flight, and at most one of them is in flight
LoadingIffSubmissionInFlight ==
    /\ isLoading <=> (formReq # NoReq \/ rideReq # <<>>)
    /\ ~(formReq # NoReq /\ rideReq # <<>>)
    /\ Len(rideReq) <= 1

\* a ride request is still in flight after a logout: the login form is
\* shown with its submit button disabled
RideInFlightAfterLogout ==
    /\ user = NullUser
    /\ last.op = "logout"
    /\ rideReq # <<>>
    /\ formReq = NoReq
    /\ isLoading

\* C35: a ride submission while no position is held sends nothing, posts
\* nothing, leaves isLoading and the form as they are
RideWithoutPositionIsNoOp ==
    [][(SubmitRide /\ currentLocation = NullLocation) =>
         UNCHANGED <<rideReq, alert, alertTimers, isLoading, rideRequest,
                     nearbyReqs, reportReqs, formReq, profileReq, user>>]_vars

\* the passenger has just submitted the ride form before any position
\* was obtained
SubmittedRideWithoutPosition ==
    /\ last.op = "ride_no_position"
    /\ currentLocation = NullLocation
    /\ user.user_type = "passenger"
    /\ rideRequest.destination_address = "Mall"
    /\ rideReq = <<>>
    /\ ~isLoading
    /\ ~alert.show

====
